---------------------------- MODULE Spec2Model ----------------------------
(***************************************************************************)
(* A model of time_series_analysis_1/ts_2_analysis.ipynb: the local-level  *)
(* Poisson sales model (numpyro) with its basis construction, its data     *)
(* preparation and its emission step.                                      *)
(*                                                                         *)
(* Real numbers are modelled exactly where the code only adds, multiplies  *)
(* and divides (rationals [n |-> numerator, d |-> denominator], d > 0),    *)
(* and in fixed point (units of 1/Scale) where it exponentiates.           *)
(***************************************************************************)
EXTENDS Integers, Sequences, FiniteSets

VARIABLES
    \* ---- prepare_model_arguments / model_local_level_poisson: the trend
    pc,                   \* "start" | "prepared" | "sampled"
    n_obs,                \* len(sales)
    downsampling_factor,  \* the caller's downsampling_factor
    n_states,             \* rows of contrasts_sdif_t (number of knots K)
    log_state_delta,      \* the n_states-1 innovations
    sigma,                \* exp(log_sigma), the volatility
    log_state_mean,       \* the global baseline
    walk,                 \* n_states * jnp.dot(contrasts_sdif_t, log_state_delta)
    knots,                \* the value sample_random_walk returns (rationals)
    idx_1,                \* floor(t / downsampling_factor), per observation
    idx_2,                \* ceil(t / downsampling_factor), per observation
    weight_2,             \* idx_n_weight - idx_1, per observation (rationals)
    log_state_base,       \* the per-observation trend (rationals)
    \* ---- periodic_rbf / compute_doy_basis (fixed point, units of 1/Scale)
    basis_call,           \* "none" | "periodic_rbf" | "compute_doy_basis"
    yday_fraction,        \* the argument x / yday_fraction, a vector
    rbf_mu,               \* periodic_rbf's mu
    rbf_sigma,            \* the width sigma
    periodic_distance,    \* periodic_rbf's periodic_distance, per element of x
    rbf_value,            \* periodic_rbf's return value, per element of x
    doy_basis,            \* compute_doy_basis's doy_basis, rows of n_centers values
    doy_basis_centered,   \* n_centers * (doy_basis - row mean)
    doy_basis_nan,        \* the rows of the returned matrix that are NaN
    \* ---- read_data
    data_pc,              \* "none" | "read"
    df_date,              \* the parsed "date" column: [year, month, day] per row
    data_wday,            \* the returned "wday"
    data_yday,            \* yday, the ordinal days
    data_is_leap_year,    \* is_leap_year, 0 or 1 per row
    data_yday_fraction,   \* the returned "yday_fraction" (rationals)
    \* ---- model_local_level_poisson: price effect and emission
    model_run,            \* per evaluation of the model: its inputs, draws and sites
    \* ---- model_local_level_poisson: sample_wday_effect
    wday_call,            \* "none" | "sample_wday_effect"
    wday,                 \* the weekday label of each observation, 1..7
    wday_coefficients,    \* the six sampled coefficients
    wday_effects,         \* 7 * jnp.dot(contrasts_wday, wday_coefficients), per level
    wday_effect_by_obs,   \* the returned array, one level effect per observation
    \* ---- run_nuts and the summary cell
    run_pc,               \* "none" | "cell_fit" | "mcmc_run" | "returned" | "summarized"
    n_chains,             \* run_nuts's n_chains
    num_warmup,           \* run_nuts's num_warmup
    num_samples,          \* run_nuts's num_samples
    chain_iteration,      \* per chain, the iterations it has completed
    m_fit,                \* the returned MCMC object: draws kept per chain
    summary               \* az.summary(m_fit): the number of draws summarized

trendVars == <<pc, n_obs, downsampling_factor, n_states, log_state_delta, sigma,
               log_state_mean, walk, knots, idx_1, idx_2, weight_2, log_state_base>>

basisVars == <<basis_call, yday_fraction, rbf_mu, rbf_sigma, periodic_distance,
               rbf_value, doy_basis, doy_basis_centered, doy_basis_nan>>

dataVars == <<data_pc, df_date, data_wday, data_yday, data_is_leap_year,
              data_yday_fraction>>

emitVars == <<model_run>>

wdayVars == <<wday_call, wday, wday_coefficients, wday_effects, wday_effect_by_obs>>

runVars == <<run_pc, n_chains, num_warmup, num_samples, chain_iteration, m_fit, summary>>

vars == <<trendVars, basisVars, dataVars, emitVars, wdayVars, runVars>>

-----------------------------------------------------------------------------
(* Bounds of the model.                                                    *)

\* the longest series and the largest downsampling factor
MaxObs == 7
MaxFactor == 3

\* the values the draws range over: innovations (Normal(0, 1)), the
\* volatility exp(log_sigma) > 0, the baseline (Normal(0, 5))
DeltaVals == {-1, 0, 2}
SigmaVals == {1, 3}
MeanVals == {-1, 0, 2}

\* fixed point: 1.0 is Scale; the day-of-year fractions tried are the
\* multiples of XStep/Scale in [0, 1], and 1 itself
Scale == 240
XStep == 10
MaxBasisRows == 2

\* the longest file, in rows; the years its first row is taken from
MaxRows == 3
Years == {1900, 2000, 2023, 2024}

\* the evaluations of the model held side by side, the observations of one
\* evaluation, and the values its terms and draws range over
Runs == {1, 2}
MaxEmitObs == 1
LogStateBaseVals == {0, 60}
WdayEffectVals == {0, 30}
YdayEffectVals == {-1, 0}
LogPriceCenteredVals == {-1, 1}
LogElasticityVals == {-1, 0, 1}

-----------------------------------------------------------------------------
(* Rational arithmetic.                                                    *)

Rat(num, den) == [n |-> num, d |-> den]
RatInt(k) == Rat(k, 1)
RatAdd(a, b) == Rat(a.n * b.d + b.n * a.d, a.d * b.d)
RatSub(a, b) == Rat(a.n * b.d - b.n * a.d, a.d * b.d)
RatMul(a, b) == Rat(a.n * b.n, a.d * b.d)
RatEq(a, b) == a.n * b.d = b.n * a.d
RatLt(a, b) == a.n * b.d < b.n * a.d
RatLe(a, b) == a.n * b.d <= b.n * a.d

\* jnp.floor and jnp.ceil of a rational with a positive denominator
Floor(a) == a.n \div a.d
Ceil(a) == -((-a.n) \div a.d)

RECURSIVE Gcd(_, _)
Gcd(a, b) == IF b = 0 THEN a ELSE Gcd(b, a % b)
Abs(k) == IF k < 0 THEN -k ELSE k
\* a in lowest terms
RatNorm(a) == LET g == Gcd(Abs(a.n), a.d) IN Rat(a.n \div g, a.d \div g)

RECURSIVE RatSumTo(_, _)
\* f[1] + ... + f[k] over rationals
RatSumTo(f, k) == IF k = 0 THEN RatInt(0) ELSE RatNorm(RatAdd(f[k], RatSumTo(f, k - 1)))

RECURSIVE SumTo(_, _)
\* f[1] + ... + f[k]
SumTo(f, k) == IF k = 0 THEN 0 ELSE f[k] + SumTo(f, k - 1)

-----------------------------------------------------------------------------
(* Contrast matrices.                                                      *)

\* patsy's Sum() coding, times n: level i < n-1 is the unit row i, the last
\* level is -1 everywhere.
SumContrastN(n, i, j) == IF i = n - 1 THEN -n ELSE IF i = j THEN n ELSE 0

\* Treatment-style cumulative coding, times n: row i is 1 up to column i-1.
CumsumContrastN(n, i, j) == IF i > j THEN n ELSE 0

\* n * patsy.contrasts.Diff().code_without_intercept(range(0, n)).matrix[i][j]
\* for 0 <= i < n, 0 <= j < n-1: column j is (j+1)/n below the diagonal step
\* (rows i > j) and (j+1-n)/n on and above it (rows i <= j).
DiffContrastN(n, i, j) == IF i > j THEN j + 1 ELSE j + 1 - n

\* n * jnp.dot(contrasts, v), as a sequence over the n levels
DotContrastN(n, v) ==
    [i \in 1..n |-> SumTo([j \in 1..(n - 1) |-> DiffContrastN(n, i - 1, j - 1) * v[j]], n - 1)]

-----------------------------------------------------------------------------
(* prepare_model_arguments: the number of knots.                           *)

\* a knot count that covers the last observation exactly: ceil((n-1)/c) + 1
NStatesCovering(n, c) == IF c = 1 THEN n ELSE Ceil(Rat(n - 1, c)) + 1

NStates(n, c) == IF c = 1 THEN n ELSE (n \div c) + 1

-----------------------------------------------------------------------------
(* model_local_level_poisson: the trend.                                   *)

\* sample_random_walk: jnp.dot(contrasts_sdif_t, log_state_delta) * sigma + log_state_mean
SampleRandomWalk(k, delta, s, m) ==
    LET w == DotContrastN(k, delta)
    IN  [i \in 1..k |-> RatAdd(RatMul(Rat(w[i], k), RatInt(s)), RatInt(m))]

\* range(1, n_obs + 1) in place of range(0, n_obs)
IdxNWeightOffByOne(t, c) == Rat(t + 1, c)

\* idx_n_weight = jnp.array(range(0, n_obs)) / downsampling_factor, at observation t
IdxNWeight(t, c) == Rat(t, c)

Idx1(t, c) == Floor(IdxNWeight(t, c))
Idx2(t, c) == Ceil(IdxNWeight(t, c))
Weight2(t, c) == RatSub(IdxNWeight(t, c), RatInt(Idx1(t, c)))

\* arr[i] for a jax array and an index array: an index past the end is
\* clamped to the last element, a read never fails.
Gather(arr, i) ==
    LET last == Len(arr) - 1
    IN  arr[(IF i > last THEN last ELSE IF i < 0 THEN 0 ELSE i) + 1]

\* (1 - weight_2) * state_before + weight_2 * state_after
Interpolate(before, after, w) ==
    RatAdd(RatMul(RatSub(RatInt(1), w), before), RatMul(w, after))

\* sample_downsampled_random_walk, given the knots
Downsample(kn, n, c) ==
    [t1 \in 1..n |->
        Interpolate(Gather(kn, Idx1(t1 - 1, c)), Gather(kn, Idx2(t1 - 1, c)),
                    Weight2(t1 - 1, c))]

\* the branch on a downsampling_factor of 1 instead of on the shapes
UseKnotsDirectlyByFactor(n, k, c) == c = 1

\* "if n_obs == n_states": the knots are the per-observation trend
UseKnotsDirectly(n, k, c) == n = k

-----------------------------------------------------------------------------
(* Actions of the trend.                                                   *)

TrendInit ==
    /\ pc = "start"
    /\ n_obs \in 0..MaxObs
    /\ downsampling_factor \in 1..MaxFactor
    /\ n_states = 0
    /\ log_state_delta = <<>>
    /\ sigma = 0
    /\ log_state_mean = 0
    /\ walk = <<>>
    /\ knots = <<>>
    /\ idx_1 = <<>>
    /\ idx_2 = <<>>
    /\ weight_2 = <<>>
    /\ log_state_base = <<>>

PrepareModelArguments ==
    /\ pc = "start"
    /\ n_states' = NStates(n_obs, downsampling_factor)
    \* Diff().code_without_intercept over zero levels asks numpy for a
    \* (0, -1) array, which raises; nothing in the function checks n_obs
    /\ pc' = IF NStates(n_obs, downsampling_factor) = 0 THEN "raised" ELSE "prepared"
    /\ UNCHANGED <<n_obs, downsampling_factor, log_state_delta, sigma, log_state_mean,
                   walk, knots, idx_1, idx_2, weight_2, log_state_base>>
    /\ UNCHANGED <<basisVars, dataVars, emitVars, wdayVars, runVars>>

\* One evaluation of the model's trend: the draws, the knots, and the
\* per-observation trend by either branch.
ModelTrend ==
    /\ pc = "prepared"
    /\ \E delta \in [1..(n_states - 1) -> DeltaVals], s \in SigmaVals, m \in MeanVals :
        LET kn == SampleRandomWalk(n_states, delta, s, m)
            direct == UseKnotsDirectly(n_obs, n_states, downsampling_factor)
        IN  /\ log_state_delta' = delta
            /\ sigma' = s
            /\ log_state_mean' = m
            /\ walk' = DotContrastN(n_states, delta)
            /\ knots' = kn
            /\ idx_1' = IF direct THEN <<>>
                        ELSE [t1 \in 1..n_obs |-> Idx1(t1 - 1, downsampling_factor)]
            /\ idx_2' = IF direct THEN <<>>
                        ELSE [t1 \in 1..n_obs |-> Idx2(t1 - 1, downsampling_factor)]
            /\ weight_2' = IF direct THEN <<>>
                           ELSE [t1 \in 1..n_obs |-> Weight2(t1 - 1, downsampling_factor)]
            /\ log_state_base' = IF direct THEN kn
                                 ELSE Downsample(kn, n_obs, downsampling_factor)
    /\ pc' = "sampled"
    /\ UNCHANGED <<n_obs, downsampling_factor, n_states>>
    /\ UNCHANGED <<basisVars, dataVars, emitVars, wdayVars, runVars>>

TrendIdle ==
    /\ pc = "idle"
    /\ n_obs = 0
    /\ downsampling_factor = 1
    /\ n_states = 0
    /\ log_state_delta = <<>>
    /\ sigma = 0
    /\ log_state_mean = 0
    /\ walk = <<>>
    /\ knots = <<>>
    /\ idx_1 = <<>>
    /\ idx_2 = <<>>
    /\ weight_2 = <<>>
    /\ log_state_base = <<>>

-----------------------------------------------------------------------------
(* Basis construction: periodic_rbf and compute_doy_basis.                 *)

NCenters == 12

\* sigma = 30/365.25, the default width
DefaultSigma == (30 * 100 * Scale) \div 36525

XVals == {k * XStep : k \in 0..(Scale \div XStep)} \cup {Scale}
WidthVals == {DefaultSigma, Scale \div 48, Scale \div 2, Scale, 2 * Scale}

\* widths that are not widths: zero and a negative one
DegenerateWidthVals == {0, -DefaultSigma}

Min(a, b) == IF a <= b THEN a ELSE b

\* exp(-q) for q >= 0 in fixed point, as (1 - q/16)^16 by four squarings at
\* sixteen times the precision; exp(0) is 1 exactly and exp(-q) underflows
\* to 0 for q >= 16.
ExpNeg(q) ==
    LET P == 16 * Scale
        Sq(b) == (b * b) \div P
        b0 == P - q
    IN  IF b0 <= 0 THEN 0 ELSE Sq(Sq(Sq(Sq(b0)))) \div 16

\* the distance without the wrap-around
PlainDistance(x, mu) == Abs(x - mu)

\* jnp.minimum(jnp.abs(x - mu), 1 - jnp.abs(x - mu))
PeriodicDistance(x, mu) == Min(Abs(x - mu), Scale - Abs(x - mu))

\* jnp.exp(-(periodic_distance ** 2) / (2 * sigma ** 2)) at one element of x
\* With sigma = 0 the quotient is d^2/0: +inf for d > 0, and exp(-inf) is 0;
\* 0/0 = nan for d = 0, which RbfIsNaN records (the value is then left 0).
PeriodicRbfAt(xa, mu, s) ==
    LET d == PeriodicDistance(xa, mu)
    IN  IF s = 0 THEN 0 ELSE ExpNeg((d * d * Scale) \div (2 * s * s))

\* the element is NaN: 0/0 inside the exponential
RbfIsNaN(xa, mu, s) == s = 0 /\ PeriodicDistance(xa, mu) = 0

\* periodic_rbf(x, mu, sigma), elementwise over the vector x
PeriodicRbf(x, mu, s) == [a \in 1..Len(x) |-> PeriodicRbfAt(x[a], mu, s)]

\* jnp.linspace(1/(2*n_centers), 1 - 1/(2*n_centers), n_centers)
MonthCenters(nc) == [j \in 1..nc |-> ((2 * j - 1) * Scale) \div (2 * nc)]

\* jnp.stack([periodic_rbf(yday_fraction, mu, sigma) for mu in month_centers], axis=-1)
DoyBasis(x, s, nc) ==
    [a \in 1..Len(x) |-> [j \in 1..nc |-> PeriodicRbfAt(x[a], MonthCenters(nc)[j], s)]]

\* the mean taken down the columns (axis=0), times the number of rows
CenterColumns(b, nc) ==
    [a \in 1..Len(b) |->
        [j \in 1..nc |-> Len(b) * b[a][j] - SumTo([r \in 1..Len(b) |-> b[r][j]], Len(b))]]

\* doy_basis - jnp.mean(doy_basis, axis=-1, keepdims=True), times n_centers
CenterRows(b, nc) ==
    [a \in 1..Len(b) |-> [j \in 1..nc |-> nc * b[a][j] - SumTo(b[a], nc)]]

\* compute_doy_basis
ComputeDoyBasis(x, s, nc) == CenterRows(DoyBasis(x, s, nc), nc)

\* the rows of the returned matrix that are NaN: a NaN element makes the
\* row mean NaN, and the subtraction spreads it over the row
DoyBasisNaNRows(x, s, nc) ==
    {a \in 1..Len(x) : \E j \in 1..nc : RbfIsNaN(x[a], MonthCenters(nc)[j], s)}

BasisIdle ==
    /\ basis_call = "none"
    /\ yday_fraction = <<>>
    /\ rbf_mu = 0
    /\ rbf_sigma = 0
    /\ periodic_distance = <<>>
    /\ rbf_value = <<>>
    /\ doy_basis = <<>>
    /\ doy_basis_centered = <<>>
    /\ doy_basis_nan = {}

\* every tried fraction, in increasing order
XGrid ==
    [a \in 1..Cardinality(XVals) |->
        CHOOSE x \in XVals : Cardinality({y \in XVals : y < x}) = a - 1]

\* a call periodic_rbf(x, mu, sigma) on the vector of all tried fractions
PeriodicRbfCall ==
    /\ basis_call = "none"
    /\ \E mu \in XVals \ {Scale}, s \in WidthVals :
        /\ yday_fraction' = XGrid
        /\ rbf_mu' = mu
        /\ rbf_sigma' = s
        /\ periodic_distance' = [a \in 1..Len(XGrid) |-> PeriodicDistance(XGrid[a], mu)]
        /\ rbf_value' = PeriodicRbf(XGrid, mu, s)
    /\ basis_call' = "periodic_rbf"
    /\ UNCHANGED <<doy_basis, doy_basis_centered, doy_basis_nan>>
    /\ UNCHANGED <<trendVars, dataVars, emitVars, wdayVars, runVars>>

\* a call compute_doy_basis(yday_fraction, sigma, n_centers = 12), up to its
\* return; the function checks neither argument, so every vector (the empty
\* one included) and every width goes through the same statements
ComputeDoyBasisCall ==
    /\ basis_call = "none"
    /\ \E k \in 0..MaxBasisRows :
        \E x \in [1..k -> XVals], s \in WidthVals \cup DegenerateWidthVals :
            /\ yday_fraction' = x
            /\ rbf_sigma' = s
            /\ doy_basis' = DoyBasis(x, s, NCenters)
            /\ doy_basis_centered' = ComputeDoyBasis(x, s, NCenters)
            /\ doy_basis_nan' = DoyBasisNaNRows(x, s, NCenters)
    /\ basis_call' = "compute_doy_basis"
    /\ UNCHANGED <<rbf_mu, periodic_distance, rbf_value>>
    /\ UNCHANGED <<trendVars, dataVars, emitVars, wdayVars, runVars>>

-----------------------------------------------------------------------------
(* read_data: the calendar columns.                                        *)

\* dt.is_leap_year(), as the 0/1 it adds to 365
IsLeapYear(y) == IF (y % 4 = 0 /\ y % 100 # 0) \/ y % 400 = 0 THEN 1 ELSE 0

DaysInMonth(y, m) ==
    IF m = 2 THEN 28 + IsLeapYear(y)
    ELSE IF m \in {4, 6, 9, 11} THEN 30 ELSE 31

\* dt.ordinal_day(): the day of the year, 1 on January 1
OrdinalDay(date) ==
    SumTo([m \in 1..(date.month - 1) |-> DaysInMonth(date.year, m)], date.month - 1)
        + date.day

\* dt.weekday(): ISO, Monday = 1 .. Sunday = 7
Weekday(date) ==
    LET y == date.year - 1
        ordinal == 365 * y + (y \div 4) - (y \div 100) + (y \div 400) + OrdinalDay(date)
    IN  ((ordinal - 1) % 7) + 1

\* the division by 365 whatever the year
YdayFractionNoLeap(yday, leap) == Rat(yday, 365)

\* yday / (365 + is_leap_year)
YdayFraction(yday, leap) == Rat(yday, 365 + leap)

NextDay(date) ==
    IF date.day < DaysInMonth(date.year, date.month)
    THEN [date EXCEPT !.day = date.day + 1]
    ELSE IF date.month < 12
    THEN [year |-> date.year, month |-> date.month + 1, day |-> 1]
    ELSE [year |-> date.year + 1, month |-> 1, day |-> 1]

RECURSIVE DailyDates(_, _)
\* a file of k rows, one per calendar day from date on
DailyDates(date, k) ==
    IF k = 0 THEN <<>> ELSE <<date>> \o DailyDates(NextDay(date), k - 1)

FirstDates ==
    {[year |-> y, month |-> m, day |-> d] :
        y \in Years, m \in 1..12, d \in 1..31} 

DataIdle ==
    /\ data_pc = "none"
    /\ df_date = <<>>
    /\ data_wday = <<>>
    /\ data_yday = <<>>
    /\ data_is_leap_year = <<>>
    /\ data_yday_fraction = <<>>

\* read_data(fname) on a file of daily rows; the sales and log_price columns
\* are returned as read and are left out.
ReadData ==
    /\ data_pc = "none"
    /\ \E first \in FirstDates, k \in 1..MaxRows :
        /\ first.day <= DaysInMonth(first.year, first.month)
        /\ LET dates == DailyDates(first, k)
               yd == [i \in 1..k |-> OrdinalDay(dates[i])]
               leap == [i \in 1..k |-> IsLeapYear(dates[i].year)]
           IN  /\ df_date' = dates
               /\ data_wday' = [i \in 1..k |-> Weekday(dates[i])]
               /\ data_yday' = yd
               /\ data_is_leap_year' = leap
               /\ data_yday_fraction' = [i \in 1..k |-> YdayFraction(yd[i], leap[i])]
    /\ data_pc' = "read"
    /\ UNCHANGED <<trendVars, basisVars, emitVars, wdayVars, runVars>>

-----------------------------------------------------------------------------
(* model_local_level_poisson: the price effect and the emission.           *)

\* the largest x with jnp.exp(x) finite in float32 (exp(88.72) is the largest float)
F32MaxLog == 88

\* jnp.exp in float32: infinite past the largest float; a finite value is
\* held by its logarithm ln.
ExpF32(x) == IF x > F32MaxLog THEN [inf |-> TRUE] ELSE [inf |-> FALSE, ln |-> x]

\* sample_price_effect: elasticity = -1 * log_elasticity
Elasticity(log_elasticity) == -1 * log_elasticity

\* sample_price_effect: log_price_centered * elasticity
PriceEffect(log_price_centered, elasticity) ==
    [t1 \in 1..Len(log_price_centered) |-> log_price_centered[t1] * elasticity]

\* the sum with the price effect added
LogRateWithPrice(base, yday_effect, wday_effect, price_effect) ==
    [t1 \in 1..Len(base) |-> base[t1] + yday_effect[t1] + wday_effect[t1] + price_effect[t1]]

\* log_state_base + yday_effect + wday_effect   (# + price_effect)
LogRate(base, yday_effect, wday_effect, price_effect) ==
    [t1 \in 1..Len(base) |-> base[t1] + yday_effect[t1] + wday_effect[t1]]

\* state = jnp.exp(...), the rate of the Poisson likelihood
State(log_rate) == [t1 \in 1..Len(log_rate) |-> ExpF32(log_rate[t1])]

NotRun == [done |-> FALSE]

EmitIdle == model_run = [r \in Runs |-> NotRun]

\* One evaluation of the model from the trend on: the terms of the log-rate
\* as the earlier steps produced them, the price effect, the rate, the
\* likelihood's rate argument.
ModelEmission(r) ==
    /\ ~model_run[r].done
    /\ \E n \in 1..MaxEmitObs :
        \E base \in [1..n -> LogStateBaseVals], wd \in [1..n -> WdayEffectVals],
           yd \in [1..n -> YdayEffectVals], lp \in [1..n -> LogPriceCenteredVals],
           le \in LogElasticityVals :
            LET el == Elasticity(le)
                pe == PriceEffect(lp, el)
                st == State(LogRate(base, yd, wd, pe))
            IN  model_run' = [model_run EXCEPT ![r] =
                    [done |-> TRUE,
                     log_state_base |-> base,
                     wday_effect |-> wd,
                     yday_effect |-> yd,
                     log_price_centered |-> lp,
                     log_elasticity |-> le,
                     elasticity |-> el,
                     price_effect |-> pe,
                     state |-> st,
                     poisson_rate |-> st]]
    /\ UNCHANGED <<trendVars, basisVars, dataVars, wdayVars, runVars>>

-----------------------------------------------------------------------------
(* model_local_level_poisson: the weekday effect.                          *)

\* contrasts_wday is built over range(0, 7)
WdayLevels == 7

MaxWdayObs == 2
WdayCoefficientVals == {-1, 2}

\* wday_effects = jnp.dot(contrasts_wday, wday_coefficients), times WdayLevels
WdayEffects(coefficients) == DotContrastN(WdayLevels, coefficients)

\* jnp.array([wday_effects[d - 1] for d in wday])
WdayEffectByObs(effects, labels) ==
    [t1 \in 1..Len(labels) |-> Gather(effects, labels[t1] - 1)]

WdayIdle ==
    /\ wday_call = "none"
    /\ wday = <<>>
    /\ wday_coefficients = <<>>
    /\ wday_effects = <<>>
    /\ wday_effect_by_obs = <<>>

\* sample_wday_effect(contrasts_wday, wday)
SampleWdayEffect ==
    /\ wday_call = "none"
    /\ \E n \in 1..MaxWdayObs :
        \E labels \in [1..n -> 1..WdayLevels],
           coefficients \in [1..(WdayLevels - 1) -> WdayCoefficientVals] :
            /\ wday' = labels
            /\ wday_coefficients' = coefficients
            /\ wday_effects' = WdayEffects(coefficients)
            /\ wday_effect_by_obs' = WdayEffectByObs(WdayEffects(coefficients), labels)
    /\ wday_call' = "sample_wday_effect"
    /\ UNCHANGED <<trendVars, basisVars, dataVars, emitVars, runVars>>

-----------------------------------------------------------------------------
(* run_nuts and the cell that summarizes its result.                       *)

MaxChains == 3
MaxWarmup == 1
MaxSamples == 2

\* a chain has finished when it has done num_warmup + num_samples iterations
ChainFinished(iterations, warmup, samples) == iterations = warmup + samples

\* mcmc.run returning as soon as one chain has finished
SomeChainFinished(iteration, n, warmup, samples) ==
    \E c \in 1..n : ChainFinished(iteration[c], warmup, samples)

\* mcmc.run(rng_key_, **model_arguments) blocks until every chain is through
AllChainsFinished(iteration, n, warmup, samples) ==
    \A c \in 1..n : ChainFinished(iteration[c], warmup, samples)

RunIdle ==
    /\ run_pc = "none"
    /\ n_chains = 0
    /\ num_warmup = 0
    /\ num_samples = 0
    /\ chain_iteration = <<>>
    /\ m_fit = <<>>
    /\ summary = 0

\* the cell is about to call run_nuts(..., n_chains, num_warmup, num_samples)
RunInitial ==
    /\ run_pc = "cell_fit"
    /\ n_chains \in 1..MaxChains
    /\ num_warmup \in 0..MaxWarmup
    /\ num_samples \in 1..MaxSamples
    /\ chain_iteration = <<>>
    /\ m_fit = <<>>
    /\ summary = 0

\* run_nuts up to and including the call of mcmc.run: the chains start
RunNuts ==
    /\ run_pc = "cell_fit"
    /\ run_pc' = "mcmc_run"
    /\ chain_iteration' = [c \in 1..n_chains |-> 0]
    /\ UNCHANGED <<n_chains, num_warmup, num_samples, m_fit, summary>>
    /\ UNCHANGED <<trendVars, basisVars, dataVars, emitVars, wdayVars>>

\* one warmup or sampling iteration of chain c; a chain runs by itself
\* once started, whatever the caller is doing
ChainIteration(c) ==
    /\ run_pc # "cell_fit"
    /\ chain_iteration[c] < num_warmup + num_samples
    /\ chain_iteration' = [chain_iteration EXCEPT ![c] = @ + 1]
    /\ UNCHANGED <<run_pc, n_chains, num_warmup, num_samples, m_fit, summary>>
    /\ UNCHANGED <<trendVars, basisVars, dataVars, emitVars, wdayVars>>

\* mcmc.run returns, run_nuts returns mcmc, the cell binds m_fit
RunNutsReturns ==
    /\ run_pc = "mcmc_run"
    /\ AllChainsFinished(chain_iteration, n_chains, num_warmup, num_samples)
    /\ m_fit' = [c \in 1..n_chains |->
                    IF chain_iteration[c] > num_warmup
                    THEN chain_iteration[c] - num_warmup ELSE 0]
    /\ run_pc' = "returned"
    /\ UNCHANGED <<n_chains, num_warmup, num_samples, chain_iteration, summary>>
    /\ UNCHANGED <<trendVars, basisVars, dataVars, emitVars, wdayVars>>

\* summary = az.summary(m_fit)
AzSummary ==
    /\ run_pc = "returned"
    /\ summary' = SumTo(m_fit, n_chains)
    /\ run_pc' = "summarized"
    /\ UNCHANGED <<n_chains, num_warmup, num_samples, chain_iteration, m_fit>>
    /\ UNCHANGED <<trendVars, basisVars, dataVars, emitVars, wdayVars>>

-----------------------------------------------------------------------------
Init == TrendInit /\ BasisIdle /\ DataIdle /\ EmitIdle /\ WdayIdle /\ RunIdle

Next ==
    \/ PrepareModelArguments
    \/ ModelTrend

Spec == Init /\ [][Next]_vars

BasisInitial == TrendIdle /\ BasisIdle /\ DataIdle /\ EmitIdle /\ WdayIdle /\ RunIdle

BasisNext ==
    \/ PeriodicRbfCall
    \/ ComputeDoyBasisCall

SpecBasis == BasisInitial /\ [][BasisNext]_vars

DataInitial == TrendIdle /\ BasisIdle /\ DataIdle /\ EmitIdle /\ WdayIdle /\ RunIdle

DataNext == ReadData

SpecData == DataInitial /\ [][DataNext]_vars

EmissionInitial == TrendIdle /\ BasisIdle /\ DataIdle /\ EmitIdle /\ WdayIdle /\ RunIdle

EmissionNext == \E r \in Runs : ModelEmission(r)

SpecEmission == EmissionInitial /\ [][EmissionNext]_vars

WdayInitial == TrendIdle /\ BasisIdle /\ DataIdle /\ EmitIdle /\ WdayIdle /\ RunIdle

WdayNext == SampleWdayEffect

SpecWday == WdayInitial /\ [][WdayNext]_vars

FitInitial == TrendIdle /\ BasisIdle /\ DataIdle /\ EmitIdle /\ WdayIdle /\ RunInitial

FitNext ==
    \/ RunNuts
    \/ \E c \in 1..n_chains : ChainIteration(c)
    \/ RunNutsReturns
    \/ AzSummary

SpecFit == FitInitial /\ [][FitNext]_vars

-----------------------------------------------------------------------------
(* Properties of the trend.                                                *)

Downsampled == pc = "sampled" /\ n_obs # n_states

\* C1: in the downsampled path every observation t reads two existing knots,
\* floor(t/c) and ceil(t/c) both inside 0..K-1, and its trend value is the
\* linear interpolation (1-w)*knot[floor(t/c)] + w*knot[ceil(t/c)] with
\* w = t/c - floor(t/c).
C1_ReadsExistingKnots ==
    (Downsampled /\ downsampling_factor >= 2) =>
        \A t1 \in 1..n_obs :
            /\ idx_1[t1] \in 0..(n_states - 1)
            /\ idx_2[t1] \in 0..(n_states - 1)
            /\ RatEq(weight_2[t1],
                     RatSub(Rat(t1 - 1, downsampling_factor), RatInt(idx_1[t1])))
            /\ RatEq(log_state_base[t1],
                     Interpolate(knots[idx_1[t1] + 1], knots[idx_2[t1] + 1], weight_2[t1]))

\* C2: the consecutive differences of the trajectory M*v are the
\* innovations: (M*v)[i+1] - (M*v)[i] = v[i] for every i (walk holds
\* n_states * M*v).
C2_IncrementsAreInnovations ==
    (pc = "sampled" /\ n_states >= 2) =>
        \A i \in 1..(n_states - 1) :
            walk[i + 1] - walk[i] = n_states * log_state_delta[i]

C2_Witness ==
    /\ pc = "sampled"
    /\ n_states = 7
    /\ log_state_delta[1] = 2
    /\ log_state_delta[2] = -1
    /\ log_state_delta[6] = 2

\* C3 as stated: the first entry of M*v is zero, so the first knot of
\* log_state_base is log_state_mean.
C3_FirstEntryZero ==
    (pc = "sampled" /\ n_states >= 2) =>
        /\ walk[1] = 0
        /\ RatEq(knots[1], RatInt(log_state_mean))

\* C3 amended: the entries of M*v sum to zero (the first entry is
\* -(1/n) * sum over j of (n-1-j)*v[j], which need not be zero), so the
\* mean of the knots of log_state_base is log_state_mean.
C3_TrajectorySumsToZero ==
    (pc = "sampled" /\ n_states >= 2) =>
        /\ SumTo(walk, n_states) = 0
        /\ walk[1] = -SumTo([j \in 1..(n_states - 1) |->
                                (n_states - j) * log_state_delta[j]], n_states - 1)
        /\ RatEq(RatSumTo(knots, n_states), RatInt(n_states * log_state_mean))

C3_Witness ==
    /\ pc = "sampled"
    /\ n_states >= 2
    /\ walk[1] # 0
    /\ ~RatEq(knots[1], RatInt(log_state_mean))

\* C4: in the downsampled path with factor c >= 2, the trend at observation
\* k*c (for every knot k with k*c <= n_obs-1) is knot k exactly: weight 0,
\* floor and ceil index both k.
C4_KnotAlignedIsKnot ==
    (Downsampled /\ downsampling_factor >= 2) =>
        \A k \in 0..(n_states - 1) :
            (k * downsampling_factor <= n_obs - 1) =>
                LET t1 == k * downsampling_factor + 1
                IN  /\ idx_1[t1] = k
                    /\ idx_2[t1] = k
                    /\ weight_2[t1].n = 0
                    /\ RatEq(log_state_base[t1], knots[k + 1])

C4_Witness ==
    /\ Downsampled
    /\ downsampling_factor = 2
    /\ n_obs = 5
    /\ ~RatEq(knots[1], knots[2])
    /\ ~RatEq(knots[2], knots[3])
    /\ RatEq(log_state_base[3], knots[2])
    /\ ~RatEq(log_state_base[2], knots[2])

\* C5: when the number of knots equals the number of observations the trend
\* at observation t is knot t, for every t, and nothing is interpolated.
C5_DirectWhenShapesAgree ==
    (pc = "sampled" /\ n_states = n_obs) =>
        /\ Len(log_state_base) = n_obs
        /\ \A t1 \in 1..n_obs : log_state_base[t1] = knots[t1]
        /\ idx_1 = <<>> /\ idx_2 = <<>> /\ weight_2 = <<>>

\* the shapes agree although the factor is 2, and the knots differ
C5_Witness ==
    /\ pc = "sampled"
    /\ n_states = n_obs
    /\ n_obs = 2
    /\ downsampling_factor = 2
    /\ ~RatEq(knots[1], knots[2])
    /\ log_state_base = knots

-----------------------------------------------------------------------------
(* Properties of the basis construction.                                   *)

\* C6: for every width > 0 and every day-of-year fraction, each row of the
\* matrix compute_doy_basis returns sums to zero over its 12 columns.
C6_RowsSumToZero ==
    (basis_call = "compute_doy_basis" /\ rbf_sigma > 0) =>
        \A a \in 1..Len(yday_fraction) :
            /\ Len(doy_basis_centered[a]) = NCenters
            /\ SumTo(doy_basis_centered[a], NCenters) = 0

\* two rows whose basis values are not constant and whose sums differ
C6_Witness ==
    /\ basis_call = "compute_doy_basis"
    /\ rbf_sigma = DefaultSigma
    /\ Len(yday_fraction) = 2
    /\ SumTo(doy_basis[1], NCenters) # SumTo(doy_basis[2], NCenters)
    /\ \E j \in 1..NCenters : doy_basis_centered[1][j] > 0
    /\ \E j \in 1..NCenters : doy_basis_centered[2][j] < 0

\* C7: the wrap-around distance, and so the basis value, is the same at
\* x = 0 and at x = 1, for every center and width; at x = center the
\* distance is 0 and the basis value 1.
C7_Periodic ==
    /\ basis_call = "periodic_rbf" =>
        \A a, b \in 1..Len(yday_fraction) :
            /\ (yday_fraction[a] = 0 /\ yday_fraction[b] = Scale) =>
                   /\ periodic_distance[a] = periodic_distance[b]
                   /\ rbf_value[a] = rbf_value[b]
            /\ (yday_fraction[a] = rbf_mu) =>
                   /\ periodic_distance[a] = 0
                   /\ rbf_value[a] = Scale
    /\ basis_call = "compute_doy_basis" =>
        \A a, b \in 1..Len(yday_fraction) :
            (yday_fraction[a] = 0 /\ yday_fraction[b] = Scale) =>
                doy_basis[a] = doy_basis[b]

\* a center off the half-way point, a width at which the value at 0 and 1 is
\* neither 0 nor 1
C7_Witness ==
    /\ basis_call = "periodic_rbf"
    /\ rbf_mu = MonthCenters(NCenters)[1]
    /\ yday_fraction[1] = 0
    /\ yday_fraction[Len(yday_fraction)] = Scale
    /\ rbf_value[1] = rbf_value[Len(yday_fraction)]
    /\ rbf_value[1] > 0
    /\ rbf_value[1] < Scale
    /\ \E a \in 1..Len(yday_fraction) : yday_fraction[a] = rbf_mu /\ rbf_value[a] = Scale

-----------------------------------------------------------------------------
(* Properties of read_data.                                                *)

\* C8 as stated: every day-of-year fraction read_data returns lies in [0, 1).
C8_FractionBelowOne ==
    data_pc = "read" =>
        \A i \in 1..Len(data_yday_fraction) :
            /\ RatLe(RatInt(0), data_yday_fraction[i])
            /\ RatLt(data_yday_fraction[i], RatInt(1))

\* C8 amended: every day-of-year fraction read_data returns lies in (0, 1]:
\* it is at least 1/366, and it is 1 exactly on December 31.
C8_FractionInUnitInterval ==
    data_pc = "read" =>
        \A i \in 1..Len(data_yday_fraction) :
            /\ data_yday[i] \in 1..(365 + data_is_leap_year[i])
            /\ RatLe(Rat(1, 366), data_yday_fraction[i])
            /\ RatLe(data_yday_fraction[i], RatInt(1))
            /\ RatEq(data_yday_fraction[i], RatInt(1))
                   <=> (df_date[i].month = 12 /\ df_date[i].day = 31)

\* a file running from December 31 of a leap year into the next year
C8_Witness ==
    /\ data_pc = "read"
    /\ Len(df_date) = 2
    /\ df_date[1] = [year |-> 2024, month |-> 12, day |-> 31]
    /\ data_yday_fraction[1] = Rat(366, 366)
    /\ data_yday_fraction[2] = Rat(1, 365)

-----------------------------------------------------------------------------
(* Properties of the price effect and the emission.                        *)

\* C9: the site "elasticity" has one fixed sign: no two evaluations of the
\* model, whatever their log_elasticity, give a positive and a negative
\* elasticity.
C9_ElasticitySignFixed ==
    \A r1, r2 \in Runs :
        (model_run[r1].done /\ model_run[r2].done) =>
            ~(model_run[r1].elasticity > 0 /\ model_run[r2].elasticity < 0)

\* C10: the rate handed to the Poisson likelihood is finite and at most
\* exp(ceiling) for a fixed ceiling, however large the total log-rate.
C10_RateCapped ==
    \A r \in Runs :
        model_run[r].done =>
            \A t1 \in 1..Len(model_run[r].poisson_rate) :
                /\ ~model_run[r].poisson_rate[t1].inf
                /\ model_run[r].poisson_rate[t1].ln <= F32MaxLog

Interpolated == pc = "sampled" /\ Len(idx_1) = n_obs /\ n_obs >= 1

\* C15 (as stated): for n_obs >= 1 and c >= 1, K = n_obs exactly when c = 1
\* and K < n_obs when c >= 2, so the interpolation path is taken if and only
\* if c # 1.
C15_PathFollowsFactor ==
    (pc \in {"prepared", "sampled"} /\ n_obs >= 1) =>
        /\ (n_states = n_obs) <=> (downsampling_factor = 1)
        /\ downsampling_factor >= 2 => n_states < n_obs
        /\ pc = "sampled" => (Interpolated <=> downsampling_factor # 1)

\* C15 (amended): for n_obs >= 1, K = n_obs when c = 1; when c >= 2,
\* K <= n_obs, with K = n_obs exactly for n_obs = 1 or n_obs = c = 2; the
\* interpolation path is taken if and only if K # n_obs.
C15_PathFollowsShapes ==
    (pc \in {"prepared", "sampled"} /\ n_obs >= 1) =>
        /\ downsampling_factor = 1 => n_states = n_obs
        /\ downsampling_factor >= 2 =>
            /\ n_states <= n_obs
            /\ (n_states = n_obs) <=>
                   (n_obs = 1 \/ (n_obs = 2 /\ downsampling_factor = 2))
        /\ pc = "sampled" => (Interpolated <=> n_states # n_obs)

\* a single observation with factor 3: one knot, used directly
C15_Witness ==
    /\ pc = "sampled"
    /\ n_obs = 1
    /\ downsampling_factor = 3
    /\ n_states = 1
    /\ ~Interpolated
    /\ log_state_base = knots

\* C14: for every vector of six weekday coefficients the seven level
\* effects sum to zero over one week, and an observation with weekday label
\* d in 1..7 receives level effect number d (index d-1).
C14_WeekSumsToZero ==
    wday_call = "sample_wday_effect" =>
        /\ Len(wday_effects) = WdayLevels
        /\ SumTo(wday_effects, WdayLevels) = 0
        /\ Len(wday_effect_by_obs) = Len(wday)
        /\ \A t1 \in 1..Len(wday) : wday_effect_by_obs[t1] = wday_effects[wday[t1]]

\* a Sunday followed by a Monday, with different level effects
C14_Witness ==
    /\ wday_call = "sample_wday_effect"
    /\ wday = <<7, 1>>
    /\ wday_coefficients[6] # 0
    /\ wday_effects[7] # wday_effects[1]
    /\ wday_effect_by_obs = <<wday_effects[7], wday_effects[1]>>

\* C12: run_nuts returns, and az.summary starts, only after every one of the
\* n_chains chains has done all num_warmup + num_samples iterations.
C12_ReturnsAfterAllChains ==
    run_pc \in {"returned", "summarized"} =>
        /\ \A c \in 1..n_chains : chain_iteration[c] = num_warmup + num_samples
        /\ \A c \in 1..n_chains : m_fit[c] = num_samples

\* three chains, summarized, each through warmup and sampling
C12_Witness ==
    /\ run_pc = "summarized"
    /\ n_chains = 3
    /\ num_warmup = 1
    /\ num_samples = 2
    /\ \A c \in 1..n_chains : chain_iteration[c] = 3
    /\ summary = 6

\* C11: compute_doy_basis called with width <= 0, or with an empty
\* observation vector, ends in a validation error and never returns a
\* matrix.
C11_DegenerateInputRejected ==
    ~(/\ basis_call = "compute_doy_basis"
      /\ (rbf_sigma <= 0 \/ yday_fraction = <<>>))

=============================================================================
